---- MODULE Spec2Model ----
(***************************************************************************)
(* A model of thoth.python's Project (src/thoth/python/project.py) and of  *)
(* the Pipfile / Pipfile.lock documents it orchestrates                    *)
(* (src/thoth/python/pipfile.py).                                          *)
(*                                                                         *)
(* Conventions.                                                            *)
(*   - Python's None is the empty sequence <<>>, an object x that may be   *)
(*     None is <<x>> (None / Some).                                        *)
(*   - A Python str is a sequence of one-character strings, so f-string    *)
(*     composition is concatenation and slicing is Tail/SubSeq.            *)
(*   - A Python dict is the sequence of its values in insertion order; the *)
(*     key is a field of the value (name).  d[k] = v replaces in place or  *)
(*     appends, as dicts do.                                               *)
(*   - Logging is not modelled.                                            *)
(***************************************************************************)
EXTENDS Integers, Sequences, FiniteSets, TLC

VARIABLES
    pipfile,        \* Project.pipfile: the Pipfile object
    pipfile_lock,   \* Project.pipfile_lock: None or Some(PipfileLock)
    workdir,        \* Project._workdir: None, or Some(the Pipfile file written there)
    result          \* outcome of the last call made on the Project

vars == <<pipfile, pipfile_lock, workdir, result>>

None == <<>>
Some(x) == <<x>>

\* ---------------------------------------------------------------- bounds

\* Longest version constraint string a Pipfile entry may reach: every
\* exclusion of an already constrained package makes the string longer, so
\* exclude_package is followed only while its result fits.
MaxVersionLen == 10

\* ------------------------------------------------------------ value sets

Names == {"x", "y"}

\* Version constraint strings.
Star == <<"*">>
Eq1 == <<"=", "=", "1">>
Eq2 == <<"=", "=", "2">>
Ge1 == <<">", "=", "1">>
Ne1 == <<"!", "=", "1">>

SrcA == [name |-> "a", url |-> "ua", verify_ssl |-> TRUE]
SrcB == [name |-> "b", url |-> "ub", verify_ssl |-> FALSE]
Sources == {SrcA, SrcB}
Urls == {"ua", "ub"}

Hashes == {"h1", "h2"}

\* PackageVersion(name, version, develop, index, hashes)
PV(n, v, d, i, h) ==
    [name |-> n, version |-> v, develop |-> d, index |-> i, hashes |-> h]

\* ------------------------------------------------------------ dict model

Range(s) == {s[i] : i \in 1..Len(s)}

\* key in d
Has(d, k) == \E i \in 1..Len(d) : d[i].name = k

\* d.get(k): None or Some(value)
Get(d, k) ==
    IF Has(d, k) THEN Some(d[CHOOSE i \in 1..Len(d) : d[i].name = k]) ELSE None

\* d[v.name] = v
Put(d, v) ==
    IF Has(d, v.name)
    THEN [i \in 1..Len(d) |-> IF d[i].name = v.name THEN v ELSE d[i]]
    ELSE Append(d, v)

UniqueNames(d) == \A i, j \in 1..Len(d) : d[i].name = d[j].name => i = j

\* -------------------------------------------------------- PackageVersion

\* PackageVersion.is_locked(): the constraint is a single exact "==" pin.
is_locked(version) ==
    /\ Len(version) >= 3
    /\ version[1] = "=" /\ version[2] = "="
    /\ \A i \in 1..Len(version) : version[i] \notin {",", "*"}

\* PackageVersion.negate_version(): "==V" becomes "!=V".
negate_version(version) == <<"!">> \o Tail(version)

\* PackageVersion.to_pipfile(): the short form, version and index name.
to_pipfile_entry(pv) ==
    [name |-> pv.name, version |-> pv.version,
     index |-> IF pv.index = None THEN None ELSE Some(pv.index[1].name)]

\* Packages.to_pipfile()
to_pipfile(packages) == [i \in 1..Len(packages) |-> to_pipfile_entry(packages[i])]

\* ---------------------------------------------------- PipfileMeta, Pipfile

Meta(sources, requires, hash) ==
    [sources |-> sources, requires |-> requires, hash |-> hash]

\* PipfileMeta.to_dict(is_lock=False): hash and pipfile-spec are left out.
meta_to_dict(meta) == [source |-> meta.sources, requires |-> meta.requires]

\* Pipfile.to_dict(), the tree toml.dumps writes.
pipfile_to_dict(pf) ==
    [packages |-> to_pipfile(pf.packages),
     dev_packages |-> to_pipfile(pf.dev_packages),
     meta |-> meta_to_dict(pf.meta)]

\* Pipfile.data: what the digest is computed from.
pipfile_data(pf) ==
    [default |-> to_pipfile(pf.packages),
     develop |-> to_pipfile(pf.dev_packages),
     meta |-> [requires |-> pf.meta.requires, sources |-> pf.meta.sources]]

\* Pipfile.hash(): the digest stands for the canonical document it is the
\* SHA-256 of (equal digests iff equal documents).
pipfile_hash(pf) == Some(pipfile_data(pf))

\* The one Pipfile object a Project owns; a PipfileLock refers to it or to none.
ThisPipfile == "pipfile"

\* ------------------------------------------------------------ PipfileLock

\* PipfileLock(packages, dev_packages, meta, pipfile).  shares_meta: meta is
\* the very PipfileMeta object of the Pipfile (Project.from_package_versions
\* passes meta=pipfile.meta), and then the field meta is not used.
Lock(packages, dev_packages, meta, shares_meta, pf_ref) ==
    [packages |-> packages, dev_packages |-> dev_packages, meta |-> meta,
     shares_meta |-> shares_meta, pipfile |-> pf_ref]

\* self.pipfile_lock.meta
lock_meta(pf, lk) == IF lk.shares_meta THEN pf.meta ELSE lk.meta

\* PipfileLock.from_file(pipfile=...) / from_string / from_dict: the parsed
\* document with its own PipfileMeta, bound to the Pipfile passed.
lock_from_file(doc, pf_ref) ==
    Lock(doc.default, doc.develop, doc.meta, FALSE, pf_ref)

\* ----------------------------------------------------- the external tool

\* What "pipenv lock" may resolve: the locked default and develop sections.
\* An entry's index is the name of a source, as in the Pipfile.lock file.
LockedX1 == PV("x", Eq1, FALSE, None, <<<<"sha256:", "h1">>>>)
LockedX2A == PV("x", Eq2, FALSE, Some("a"), <<<<"sha256:", "h1">>, <<"sha256:", "h2">>>>)
LockedY1Dev == PV("y", Eq1, TRUE, Some("b"), <<<<"sha256:", "h2">>>>)

Resolutions ==
    { [default |-> <<>>, develop |-> <<>>],
      [default |-> <<LockedX1>>, develop |-> <<>>],
      [default |-> <<LockedX2A>>, develop |-> <<LockedY1Dev>>] }

\* Packages.from_pipfile_lock(..., meta): the index name of an entry is
\* resolved to the Source of that name in meta.
resolve_index(entries, meta) ==
    [i \in 1..Len(entries) |->
        [entries[i] EXCEPT !.index =
            IF @ = None THEN None ELSE Get(meta.sources, @[1])]]

\* The resolutions the tool can write for a Pipfile: something is locked
\* and every index named is a source of the Pipfile.
ResolutionsFor(pf) ==
    { r \in Resolutions :
        /\ r.default # <<>>
        /\ \A e \in Range(r.default) \cup Range(r.develop) :
            e.index = None \/ Has(pf.meta.sources, e.index[1]) }

\* The Pipfile.lock document the tool writes on exit 0 for the Pipfile it
\* found in the working directory: sources and requires copied, the hash of
\* the Pipfile recorded.
tool_output(pf, resolution) ==
    LET meta == Meta(pf.meta.sources, pf.meta.requires, pipfile_hash(pf))
    IN  [meta |-> meta,
         default |-> resolve_index(resolution.default, meta),
         develop |-> resolve_index(resolution.develop, meta)]

\* ---------------------------------------------------------------- Project

\* What a call on the Project leaves behind: the error raised ("" for a
\* normal return), the Project's fields, the PackageVersion object passed
\* (as it is after the call), the exit codes of the tool runs made, the index
\* queries made (in order) and the value returned.
Outcome(err, pf, lk, wd, arg_out, tool, queries, value) ==
    [err |-> err, pipfile |-> pf, pipfile_lock |-> lk, workdir |-> wd,
     arg_out |-> arg_out, tool |-> tool, queries |-> queries, value |-> value]

\* pipenv_lock as it would be if a failing run dropped the Pipfile.lock the
\* Project holds.
pipenv_lock_dropping(pf, lk, wd, exit_code, resolution) ==
    LET lock_file == IF exit_code = 0 THEN Some(tool_output(pf, resolution))
                     ELSE IF wd = None THEN None ELSE wd[1].lock_file
        wd2 == Some([pipfile_file |-> pipfile_to_dict(pf), lock_file |-> lock_file])
    IN  IF exit_code # 0
        THEN Outcome("UnableLock", pf, None, wd2, None, <<exit_code>>, <<>>, <<>>)
        ELSE Outcome("", pf, Some(lock_from_file(lock_file[1], Some(ThisPipfile))),
                     wd2, None, <<exit_code>>, <<>>, <<>>)

\* Project.pipenv_lock().  The working directory is created on first use
\* and the Pipfile is written there; workdir holds the two files of that
\* directory.  The tool runs there and writes Pipfile.lock on exit 0, which
\* is then loaded; a failing run leaves the directory's Pipfile.lock alone.
pipenv_lock(pf, lk, wd, exit_code, resolution) ==
    LET lock_file == IF exit_code = 0 THEN Some(tool_output(pf, resolution))
                     ELSE IF wd = None THEN None ELSE wd[1].lock_file
        wd2 == Some([pipfile_file |-> pipfile_to_dict(pf), lock_file |-> lock_file])
    IN  IF exit_code # 0
        THEN Outcome("UnableLock", pf, lk, wd2, None, <<exit_code>>, <<>>, <<>>)
        ELSE Outcome("", pf, Some(lock_from_file(lock_file[1], Some(ThisPipfile))),
                     wd2, None, <<exit_code>>, <<>>, <<>>)

\* combine_version as it would be with the existing constraint put first.
combine_version_existing_first(negated, existing) ==
    IF existing # Star THEN existing \o <<",">> \o negated ELSE negated

\* exclude_package, the composition of the constraint.
combine_version(negated, existing) ==
    IF existing # Star THEN negated \o <<",">> \o existing ELSE negated

\* exclude_package, the PackageVersion object passed as the call leaves it.
excluded_entry(pf, pv) ==
    LET section == IF pv.develop THEN pf.dev_packages ELSE pf.packages
        to_exclude_package == Get(section, pv.name)
        negated == negate_version(pv.version)
    IN  [pv EXCEPT !.version =
            IF to_exclude_package # None
            THEN combine_version(negated, to_exclude_package[1].version)
            ELSE negated]

\* exclude_write as it would be if the develop flag were ignored.
exclude_write_default_only(pf, pv) ==
    [pf EXCEPT !.packages = Put(@, excluded_entry(pf, pv))]

\* exclude_package, the write into the section of the Pipfile.
exclude_write(pf, pv) ==
    IF pv.develop
    THEN [pf EXCEPT !.dev_packages = Put(@, excluded_entry(pf, pv))]
    ELSE [pf EXCEPT !.packages = Put(@, excluded_entry(pf, pv))]

\* exclude_package as it would be without the is_locked() check.
exclude_package_unchecked(pf, lk, wd, pv, exit_code, resolution) ==
    LET pf2 == exclude_write(pf, pv)
        r == pipenv_lock(pf2, lk, wd, exit_code, resolution)
    IN  [r EXCEPT !.arg_out = Some(excluded_entry(pf, pv))]

\* exclude_package as it would be if it locked before writing the section.
exclude_package_lock_first(pf, lk, wd, pv, exit_code, resolution) ==
    IF ~is_locked(pv.version)
    THEN Outcome("InternalError", pf, lk, wd, Some(pv), <<>>, <<>>, <<>>)
    ELSE LET r == pipenv_lock(pf, lk, wd, exit_code, resolution)
         IN  [r EXCEPT !.pipfile = exclude_write(pf, pv),
                       !.arg_out = Some(excluded_entry(pf, pv))]

\* Project.exclude_package(package_version)
exclude_package(pf, lk, wd, pv, exit_code, resolution) ==
    IF ~is_locked(pv.version)
    THEN Outcome("InternalError", pf, lk, wd, Some(pv), <<>>, <<>>, <<>>)
    ELSE LET pf2 == exclude_write(pf, pv)
             r == pipenv_lock(pf2, lk, wd, exit_code, resolution)
         IN  [r EXCEPT !.arg_out = Some(excluded_entry(pf, pv))]

\* index_check_fails as it would be if only the url were compared.
index_check_url_only(pv, source) ==
    /\ source.name = pv.index[1].name
    /\ source.url # pv.index[1].url

\* _PipfileBase.sanitize_source_indexes(), the check of one package against
\* one registered source: TRUE when InternalError is raised.  (A source that
\* is the very object the package refers to has equal url and verify_ssl.)
index_check_fails(pv, source) ==
    /\ source.name = pv.index[1].name
    /\ \/ source.url # pv.index[1].url
       \/ source.verify_ssl # pv.index[1].verify_ssl

\* The loop of sanitize_source_indexes over chain(packages, dev_packages),
\* from entry i on: [err, sources].
RECURSIVE sanitize_from(_, _, _)
sanitize_from(pvs, i, sources) ==
    IF i > Len(pvs) THEN [err |-> "", sources |-> sources]
    ELSE IF pvs[i].index = None THEN sanitize_from(pvs, i + 1, sources)
    ELSE IF ~Has(sources, pvs[i].index[1].name)
    THEN IF \E k \in 1..Len(sources) : index_check_fails(pvs[i], sources[k])
         THEN [err |-> "InternalError", sources |-> sources]
         ELSE sanitize_from(pvs, i + 1, Put(sources, pvs[i].index[1]))
    ELSE IF index_check_fails(pvs[i], Get(sources, pvs[i].index[1].name)[1])
         THEN [err |-> "InternalError", sources |-> sources]
         ELSE sanitize_from(pvs, i + 1, sources)

\* _PipfileBase.sanitize_source_indexes()
sanitize_source_indexes(packages, dev_packages, sources) ==
    sanitize_from(packages \o dev_packages, 1, sources)

\* Project.iter_dependencies_locked(with_devel), on a locked Project.
iter_dependencies_locked(lk, with_devel) ==
    IF with_devel THEN lk.packages \o lk.dev_packages ELSE lk.packages

\* PackageVersion.semantic_version: the version a pin "==V" names.
semantic_version(version) == SubSeq(version, 3, Len(version))

\* probe_sources as it would be if a NotFound ended the probing of the
\* remaining sources.
RECURSIVE probe_sources_until_miss(_, _, _, _, _)
probe_sources_until_miss(pv, sources, j, latest, acc) ==
    IF j > Len(sources) THEN acc
    ELSE LET answer == latest[sources[j].url][pv.name]
             asked == Append(acc.queries, <<sources[j].url, pv.name, answer>>)
         IN  IF answer = None
             THEN [acc EXCEPT !.queries = asked]
             ELSE probe_sources_until_miss(pv, sources, j + 1, latest,
                    [found |-> TRUE,
                     queries |-> asked,
                     value |-> IF semantic_version(pv.version) # answer[1]
                               THEN Put(acc.value, [name |-> pv.name, current |-> pv,
                                                    latest |-> answer[1]])
                               ELSE acc.value])

\* get_outdated_package_versions, a package without index: the loop over
\* the sources from source j on.  acc is [found, value, queries]; a query is
\* <<url asked, package name, answer>> with None for NotFound.
RECURSIVE probe_sources(_, _, _, _, _)
probe_sources(pv, sources, j, latest, acc) ==
    IF j > Len(sources) THEN acc
    ELSE LET answer == latest[sources[j].url][pv.name]
             asked == Append(acc.queries, <<sources[j].url, pv.name, answer>>)
         IN  IF answer = None
             THEN probe_sources(pv, sources, j + 1, latest,
                                [acc EXCEPT !.queries = asked])
             ELSE probe_sources(pv, sources, j + 1, latest,
                    [found |-> TRUE,
                     queries |-> asked,
                     value |-> IF semantic_version(pv.version) # answer[1]
                               THEN Put(acc.value, [name |-> pv.name, current |-> pv,
                                                    latest |-> answer[1]])
                               ELSE acc.value])

\* get_outdated_package_versions, the loop over the locked packages from
\* package i on: [err, value, queries].
RECURSIVE outdated_from(_, _, _, _, _, _)
outdated_from(pvs, i, sources, latest, value, queries) ==
    IF i > Len(pvs) THEN [err |-> "", value |-> value, queries |-> queries]
    ELSE IF pvs[i].index # None
    THEN LET answer == latest[pvs[i].index[1].url][pvs[i].name]
             asked == Append(queries, <<pvs[i].index[1].url, pvs[i].name, answer>>)
         IN  IF answer = None
             THEN [err |-> "NotFound", value |-> <<>>, queries |-> asked]
             ELSE outdated_from(pvs, i + 1, sources, latest,
                    IF semantic_version(pvs[i].version) # answer[1]
                    THEN Put(value, [name |-> pvs[i].name, current |-> pvs[i],
                                     latest |-> answer[1]])
                    ELSE value,
                    asked)
    ELSE LET acc == probe_sources(pvs[i], sources, 1, latest,
                        [found |-> FALSE, value |-> value, queries |-> queries])
         IN  IF ~acc.found
             THEN [err |-> "NotFound", value |-> <<>>, queries |-> acc.queries]
             ELSE outdated_from(pvs, i + 1, sources, latest, acc.value, acc.queries)

\* get_outdated_package_versions as it would be if a missing Pipfile.lock
\* were taken for an empty one.
get_outdated_unchecked(pf, lk, wd, devel, latest) ==
    IF lk = None
    THEN Outcome("", pf, lk, wd, None, <<>>, <<>>, <<>>)
    ELSE LET r == outdated_from(iter_dependencies_locked(lk[1], devel), 1,
                                lock_meta(pf, lk[1]).sources, latest, <<>>, <<>>)
         IN  Outcome(r.err, pf, lk, wd, None, <<>>, r.queries, r.value)

\* Project.get_outdated_package_versions(devel)
get_outdated_package_versions(pf, lk, wd, devel, latest) ==
    IF lk = None
    THEN Outcome("InternalError", pf, lk, wd, None, <<>>, <<>>, <<>>)
    ELSE LET r == outdated_from(iter_dependencies_locked(lk[1], devel), 1,
                                lock_meta(pf, lk[1]).sources, latest, <<>>, <<>>)
         IN  Outcome(r.err, pf, lk, wd, None, <<>>, r.queries, r.value)

\* Consuming Project.iter_dependencies_locked(with_devel)
list_dependencies_locked(pf, lk, wd, with_devel) ==
    IF lk = None
    THEN Outcome("InternalError", pf, lk, wd, None, <<>>, <<>>, <<>>)
    ELSE Outcome("", pf, lk, wd, None, <<>>, <<>>,
                 iter_dependencies_locked(lk[1], with_devel))

\* ------------------------------------------------------ provenance check

\* One entry of the findings list: type, id and the contextual fields (the
\* source, or the package with the indexes or the digest reported).
Finding(type, id, source, package, indexes, digest) ==
    [type |-> type, id |-> id, source |-> source, package |-> package,
     indexes |-> indexes, digest |-> digest]

\* _check_sources as it would be if the whitelist were matched against the
\* name of the source.
source_findings_by_name(source, whitelisted_sources) ==
    IF /\ whitelisted_sources # None
       /\ whitelisted_sources[1] # {}
       /\ source.name \notin whitelisted_sources[1]
    THEN <<Finding("ERROR", "SOURCE-NOT-WHITELISTED", Some(source), None, <<>>, None)>>
    ELSE IF ~source.verify_ssl
    THEN <<Finding("WARNING", "INSECURE-SOURCE", Some(source), None, <<>>, None)>>
    ELSE <<>>

\* Project._check_sources, the body of the loop: what one source adds to
\* the report.  whitelisted_sources is None or Some(the urls listed); an
\* empty list is falsy, as None is.
source_findings(source, whitelisted_sources) ==
    IF /\ whitelisted_sources # None
       /\ whitelisted_sources[1] # {}
       /\ source.url \notin whitelisted_sources[1]
    THEN <<Finding("ERROR", "SOURCE-NOT-WHITELISTED", Some(source), None, <<>>, None)>>
    ELSE IF ~source.verify_ssl
    THEN <<Finding("WARNING", "INSECURE-SOURCE", Some(source), None, <<>>, None)>>
    ELSE <<>>

\* Project._check_sources(whitelisted_sources), from source i on.
RECURSIVE check_sources_from(_, _, _)
check_sources_from(sources, i, whitelisted_sources) ==
    IF i > Len(sources) THEN <<>>
    ELSE source_findings(sources[i], whitelisted_sources)
         \o check_sources_from(sources, i + 1, whitelisted_sources)

\* Project._check_sources(whitelisted_sources)
check_sources(pf, whitelisted_sources) ==
    check_sources_from(pf.meta.sources, 1, whitelisted_sources)

\* A pipenv style hash "sha256:<hex>" and the removal of its prefix,
\* h[len("sha256:"):].
pipenv_hash(hex) == <<"sha256:", hex>>
strip_sha256(h) == h[2]

\* report_get as it would be if a url that is not listed fell back to the
\* first source of the report.
report_get_fallback(index_report, url) ==
    IF Has(index_report, url) THEN Get(index_report, url)[1].items
    ELSE IF index_report # <<>> THEN index_report[1].items ELSE <<>>

\* An index report maps a source url to the list of artifacts found there:
\* a sequence of [name |-> url, items |-> <<sha256, ...>>], in key order.
report_get(index_report, url) ==
    IF Has(index_report, url) THEN Get(index_report, url)[1].items ELSE <<>>

\* set(chain(*hashes))
all_hashes(index_report) ==
    UNION {Range(index_report[k].items) : k \in 1..Len(index_report)}

\* other_sources_from as it would be if the index assigned to the package
\* were not skipped.
RECURSIVE other_sources_from_any(_, _, _, _, _)
other_sources_from_any(pv, index_report, h, k, acc) ==
    IF h > Len(pv.hashes) THEN acc
    ELSE IF k > Len(index_report)
    THEN other_sources_from_any(pv, index_report, h + 1, 1, acc)
    ELSE LET index_url == index_report[k].name
             hit == strip_sha256(pv.hashes[h]) \in Range(index_report[k].items)
         IN  other_sources_from_any(pv, index_report, h, k + 1,
                IF hit /\ index_url \notin Range(acc)
                THEN Append(acc, index_url) ELSE acc)

\* _check_scan, the other sources an artifact of the package can come from:
\* the keys of other_sources in insertion order (hashes outer, urls inner).
RECURSIVE other_sources_from(_, _, _, _, _)
other_sources_from(pv, index_report, h, k, acc) ==
    IF h > Len(pv.hashes) THEN acc
    ELSE IF k > Len(index_report)
    THEN other_sources_from(pv, index_report, h + 1, 1, acc)
    ELSE LET index_url == index_report[k].name
             hit == /\ index_url # pv.index[1].url
                    /\ strip_sha256(pv.hashes[h]) \in Range(index_report[k].items)
         IN  other_sources_from(pv, index_report, h, k + 1,
                IF hit /\ index_url \notin Range(acc)
                THEN Append(acc, index_url) ELSE acc)

\* invalid_hashes_from as it would be if a package with an index were
\* looked up on that index only.
RECURSIVE invalid_hashes_assigned_only(_, _, _)
invalid_hashes_assigned_only(pv, index_report, h) ==
    IF h > Len(pv.hashes) THEN <<>>
    ELSE LET digest == strip_sha256(pv.hashes[h])
             rest == invalid_hashes_assigned_only(pv, index_report, h + 1)
             known == IF pv.index = None THEN all_hashes(index_report)
                      ELSE Range(report_get(index_report, pv.index[1].url))
         IN  IF digest \in known THEN rest
             ELSE <<Finding("ERROR", "INVALID-ARTIFACT-HASH", pv.index, Some(pv),
                            <<>>, Some(digest))>> \o rest

\* _check_scan, the "changed hashes" loop from hash h on.
RECURSIVE invalid_hashes_from(_, _, _)
invalid_hashes_from(pv, index_report, h) ==
    IF h > Len(pv.hashes) THEN <<>>
    ELSE LET digest == strip_sha256(pv.hashes[h])
             rest == invalid_hashes_from(pv, index_report, h + 1)
         IN  IF digest \in all_hashes(index_report) THEN rest
             ELSE <<Finding("ERROR", "INVALID-ARTIFACT-HASH", pv.index, Some(pv),
                            <<>>, Some(digest))>> \o rest

\* Project._check_scan(package_version, index_report)
check_scan(pv, index_report) ==
    LET urls == [k \in 1..Len(index_report) |-> index_report[k].name]
        different ==
            IF /\ pv.index = None
               /\ Len(index_report) > 1
               /\ all_hashes(index_report) # Range(index_report[1].items)
            THEN <<Finding("WARNING", "DIFFERENT-ARTIFACTS-ON-SOURCES", None,
                           Some(pv), urls, None)>>
            ELSE <<>>
        other_source ==
            IF /\ pv.index # None
               /\ report_get(index_report, pv.index[1].url) # <<>>
               /\ Len(index_report) > 1
            THEN LET used == {strip_sha256(pv.hashes[h]) : h \in 1..Len(pv.hashes)}
                     configured == Range(report_get(index_report, pv.index[1].url))
                     other_sources == other_sources_from(pv, index_report, 1, 1, <<>>)
                 IN  IF ~(used \subseteq configured)
                     THEN <<Finding("ERROR", "ARTIFACT-DIFFERENT-SOURCE", pv.index,
                                    Some(pv), other_sources, None)>>
                     ELSE IF other_sources # <<>>
                     THEN <<Finding("INFO", "ARTIFACT-POSSIBLE-DIFFERENT-SOURCE",
                                    pv.index, Some(pv), other_sources, None)>>
                     ELSE <<>>
            ELSE <<>>
        missing ==
            IF pv.index # None /\ report_get(index_report, pv.index[1].url) = <<>>
            THEN <<Finding("ERROR", "MISSING-PACKAGE", pv.index, Some(pv),
                           urls, None)>>
            ELSE <<>>
    IN  different \o other_source \o missing \o invalid_hashes_from(pv, index_report, 1)

\* Project._index_scan(digests_fetcher), from package i on.  seen are the
\* names already in the report; digests[name] is what the fetcher answers.
\* [findings, queries], a query being <<package name, index report>>.
RECURSIVE index_scan_from(_, _, _, _)
index_scan_from(pvs, i, seen, digests) ==
    IF i > Len(pvs) THEN [findings |-> <<>>, queries |-> <<>>]
    ELSE IF pvs[i].name \in seen THEN index_scan_from(pvs, i + 1, seen, digests)
    ELSE LET rest == index_scan_from(pvs, i + 1, seen \cup {pvs[i].name}, digests)
         IN  [findings |-> check_scan(pvs[i], digests[pvs[i].name]) \o rest.findings,
              queries |-> <<<<pvs[i].name, digests[pvs[i].name]>>>> \o rest.queries]

\* Project._index_scan(digests_fetcher), on a locked Project.
index_scan(lk, digests) ==
    index_scan_from(lk.packages \o lk.dev_packages, 1, {}, digests)

\* check_provenance as it would be if the findings about the sources were
\* put in front of those of the index scan.
check_provenance_sources_first(pf, lk, wd, whitelisted_sources, digests) ==
    IF lk = None
    THEN Outcome("AttributeError", pf, lk, wd, None, <<>>, <<>>, <<>>)
    ELSE LET scan == index_scan(lk[1], digests)
         IN  Outcome("", pf, lk, wd, None, <<>>, scan.queries,
                     check_sources(pf, whitelisted_sources) \o scan.findings)

\* Project.check_provenance(whitelisted_sources, digests_fetcher).  Without
\* Pipfile.lock, self.pipfile_lock.packages is an attribute of None.
check_provenance(pf, lk, wd, whitelisted_sources, digests) ==
    IF lk = None
    THEN Outcome("AttributeError", pf, lk, wd, None, <<>>, <<>>, <<>>)
    ELSE LET scan == index_scan(lk[1], digests)
         IN  Outcome("", pf, lk, wd, None, <<>>, scan.queries,
                     scan.findings \o check_sources(pf, whitelisted_sources))

\* ------------------------------------------------------------ construction

\* Pipfile.from_package_versions(packages, meta) on packages with distinct
\* names per section.
pipfile_from_package_versions(packages, meta) ==
    [packages |-> SelectSeq(packages, LAMBDA pv : ~pv.develop),
     dev_packages |-> SelectSeq(packages, LAMBDA pv : pv.develop),
     meta |-> IF meta = None THEN Meta(<<>>, <<>>, None) ELSE meta[1]]

\* Project.from_package_versions(packages, packages_locked, meta): the
\* Pipfile.lock, if any, gets the PipfileMeta object of the Pipfile; then
\* Project.sanitize_source_indexes() runs on both.  [err, pipfile, pipfile_lock]
from_package_versions(packages, packages_locked, meta) ==
    LET pf == pipfile_from_package_versions(packages, meta)
        s1 == sanitize_source_indexes(pf.packages, pf.dev_packages, pf.meta.sources)
        pf1 == [pf EXCEPT !.meta.sources = s1.sources]
        lk == Lock(SelectSeq(packages_locked, LAMBDA pv : ~pv.develop),
                   SelectSeq(packages_locked, LAMBDA pv : pv.develop),
                   pf.meta, TRUE, Some(ThisPipfile))
        s2 == sanitize_source_indexes(lk.packages, lk.dev_packages, s1.sources)
    IN  IF s1.err # "" THEN [err |-> s1.err, pipfile |-> pf, pipfile_lock |-> None]
        ELSE IF packages_locked = <<>>
        THEN [err |-> "", pipfile |-> pf1, pipfile_lock |-> None]
        ELSE IF s2.err # "" THEN [err |-> s2.err, pipfile |-> pf1, pipfile_lock |-> None]
        ELSE [err |-> "", pipfile |-> [pf1 EXCEPT !.meta.sources = s2.sources],
              pipfile_lock |-> Some(lk)]

\* The direct dependencies a Project starts with.
DirectLists ==
    { <<>>,
      <<PV("x", Star, FALSE, None, <<>>)>>,
      <<PV("y", Ge1, FALSE, None, <<>>), PV("x", Eq2, FALSE, Some(SrcA), <<>>)>>,
      <<PV("x", Eq2, FALSE, None, <<>>), PV("x", Star, TRUE, None, <<>>)>> }

SourceLists == { <<SrcA, SrcB>> }

\* The locked packages a Project starts with: what a resolution holds, as
\* PackageVersion objects.
locked_list(resolution, sources) ==
    resolve_index(resolution.default \o resolution.develop, [sources |-> sources])

\* The result of a construction: how the Project was built and the locked
\* packages it was given.
Built(how, packages_locked) ==
    [op |-> how, err |-> "", arg |-> None, arg_out |-> None, tool |-> <<>>,
     queries |-> <<>>, value |-> packages_locked]

\* No call was made on the Project since it was built.
JustBuilt == result.op \in {"from_package_versions", "from_strings", "constructor"}

\* A Project as Project.from_package_versions builds it (unlocked when no
\* locked packages are given), as Project.from_strings builds it from a
\* Pipfile and the Pipfile.lock an earlier tool run wrote for it, or as the
\* constructor takes a Pipfile with a Pipfile.lock parsed without one.
InitProject(direct, sources, resolution, built) ==
    LET fpv == from_package_versions(direct, locked_list(resolution, sources),
                                     Some(Meta(sources, <<>>, None)))
        pf == pipfile_from_package_versions(direct, Some(Meta(sources, <<>>, None)))
    IN  /\ result = Built(built, locked_list(resolution, sources))
        /\ workdir = None
        /\ \/ /\ built = "from_package_versions"
              /\ fpv.err = ""
              /\ pipfile = fpv.pipfile
              /\ pipfile_lock = fpv.pipfile_lock
           \/ /\ built = "from_strings"
              /\ pipfile = pf
              /\ pipfile_lock =
                    Some(lock_from_file(tool_output(pf, resolution), Some(ThisPipfile)))
           \/ /\ built = "constructor"
              /\ pipfile = pf
              /\ pipfile_lock = Some(lock_from_file(tool_output(pf, resolution), None))

Init ==
    \E direct \in DirectLists, sources \in SourceLists, resolution \in Resolutions,
       built \in {"from_package_versions", "from_strings"} :
        InitProject(direct, sources, resolution, built)

\* ----------------------------------------------------------------- actions

\* The call returns or raises: the Project is as the call left it.
Commit(op, arg, r) ==
    /\ pipfile' = r.pipfile
    /\ pipfile_lock' = r.pipfile_lock
    /\ workdir' = r.workdir
    /\ result' = [op |-> op, err |-> r.err, arg |-> arg, arg_out |-> r.arg_out,
                  tool |-> r.tool, queries |-> r.queries, value |-> r.value]

\* The package versions callers ask to exclude.
ExcludeArgs ==
    { PV(n, v, d, i, <<>>) :
        n \in {"x"}, v \in {Eq1, Ge1, Star}, d \in BOOLEAN, i \in {None} }

\* The tool runs a call of exclude_package can meet: a call that is refused
\* meets none, whatever the tool would do.
ToolRuns(pv) ==
    IF is_locked(pv.version)
    THEN {0, 1} \X ResolutionsFor(pipfile)
    ELSE {0} \X {[default |-> <<>>, develop |-> <<>>]}

ExcludePackage ==
    \E pv \in ExcludeArgs : \E run \in ToolRuns(pv) :
        LET exit_code == run[1]
            resolution == run[2]
            r == exclude_package(pipfile, pipfile_lock, workdir, pv, exit_code, resolution)
        IN  /\ \A e \in Range(r.pipfile.packages) \cup Range(r.pipfile.dev_packages) :
                  Len(e.version) <= MaxVersionLen
            /\ Commit("exclude_package", Some(pv), r)

PipenvLock ==
    \E exit_code \in {0, 1}, resolution \in ResolutionsFor(pipfile) :
        Commit("pipenv_lock", None,
               pipenv_lock(pipfile, pipfile_lock, workdir, exit_code, resolution))

\* What an index answers to get_latest_package_version(name): None stands
\* for NotFound.
Answers == {None, Some(<<"1">>), Some(<<"2">>)}
Latests == [Urls -> [Names -> Answers]]

\* The answers that differ where the call can ask: for a locked package,
\* at its index or, when it has none, at the sources of the Pipfile.lock.
LatestsFor(pf, lk) ==
    IF lk = None THEN {[u \in Urls |-> [n \in Names |-> None]]}
    ELSE LET pvs == Range(lk[1].packages) \cup Range(lk[1].dev_packages)
             at(pv) == IF pv.index # None THEN {pv.index[1].url}
                       ELSE {src.url : src \in Range(lock_meta(pf, lk[1]).sources)}
         IN  { l \in Latests :
                 \A u \in Urls, n \in Names :
                     (\A pv \in pvs : pv.name # n \/ u \notin at(pv)) => l[u][n] = None }

GetOutdatedPackageVersions ==
    \E devel \in BOOLEAN, latest \in LatestsFor(pipfile, pipfile_lock) :
        Commit("get_outdated_package_versions",
               Some([devel |-> devel]),
               get_outdated_package_versions(pipfile, pipfile_lock, workdir, devel, latest))

IterDependenciesLocked ==
    \E with_devel \in BOOLEAN :
        Commit("iter_dependencies_locked", None,
               list_dependencies_locked(pipfile, pipfile_lock, workdir, with_devel))

Next ==
    \/ ExcludePackage
    \/ PipenvLock
    \/ GetOutdatedPackageVersions
    \/ IterDependenciesLocked

Spec == Init /\ [][Next]_vars

\* ---------------------------------------- the outdated check on its own

\* Locked Projects as Project.from_strings loads them: the Pipfile.lock has
\* its own sources, in any order, possibly none; a package may name one of
\* them as its index; a name may be locked in both sections.
LockedDefaults ==
    { <<>>,
      <<PV("x", Eq1, FALSE, None, <<>>)>>,
      <<PV("x", Eq1, FALSE, Some(SrcB), <<>>)>>,
      <<PV("x", Eq2, FALSE, None, <<>>), PV("y", Eq1, FALSE, Some(SrcA), <<>>)>> }

LockedDevelops ==
    { <<>>,
      <<PV("y", Eq2, TRUE, None, <<>>)>>,
      <<PV("x", Eq2, TRUE, None, <<>>)>> }

LockSourceLists == { <<>>, <<SrcA>>, <<SrcA, SrcB>>, <<SrcB, SrcA>> }

InitOutdated ==
    \E default \in LockedDefaults, develop \in LockedDevelops,
       sources \in LockSourceLists :
        /\ \A pv \in Range(default) \cup Range(develop) :
              pv.index # None => pv.index[1] \in Range(sources)
        /\ pipfile = pipfile_from_package_versions(<<>>, Some(Meta(sources, <<>>, None)))
        /\ pipfile_lock =
              Some(Lock(default, develop, Meta(sources, <<>>, None), FALSE,
                        Some(ThisPipfile)))
        /\ workdir = None
        /\ result = Built("from_strings", default \o develop)

\* One call on each Project: the call leaves the Project as it is, so a
\* second call would meet what the first one met.
NextOutdated == JustBuilt /\ GetOutdatedPackageVersions

SpecOutdated == InitOutdated /\ [][NextOutdated]_vars

\* ------------------------------------- the provenance check on its own

SrcLists == { <<SrcA>>, <<SrcA, SrcB>>, <<SrcB, SrcA>> }

\* The artifacts a source lists for a package, and the index reports a
\* digests fetcher can answer with: any sources, in any order, each with
\* any artifacts or none.
ItemLists == { <<>>, <<"h1">>, <<"h2">>, <<"h1", "h2">> }

\* The urls a report can be keyed by: the fetcher may know a source the
\* Pipfile of the Project does not list.
ReportUrls == Urls \cup {"uc"}
Reports ==
    {<<>>}
    \cup { <<[name |-> u, items |-> i]>> : u \in ReportUrls, i \in ItemLists }
    \cup { r \in { <<[name |-> u, items |-> i], [name |-> v, items |-> j]>> :
                      u \in ReportUrls, v \in ReportUrls,
                      i \in ItemLists, j \in ItemLists } :
             r[1].name # r[2].name }

\* The whitelists a caller passes: none, an empty list, lists of urls.
Whitelists == {None} \cup {Some(w) : w \in SUBSET Urls}

H1 == <<"sha256:", "h1">>
H2 == <<"sha256:", "h2">>

ScannedDefaults ==
    { <<PV("x", Eq1, FALSE, None, <<H1>>)>>,
      <<PV("x", Eq1, FALSE, None, <<H1, H2>>)>>,
      <<PV("x", Eq1, FALSE, Some(SrcA), <<H1>>)>>,
      <<PV("x", Eq1, FALSE, Some(SrcA), <<H1, H2>>)>> }

ScannedDevelops ==
    { <<>>,
      <<PV("x", Eq2, TRUE, Some(SrcA), <<H2>>)>>,
      <<PV("y", Eq1, TRUE, Some(SrcB), <<H2>>)>> }

\* Projects as Project.from_strings loads them, with and without
\* Pipfile.lock; a name may be locked in both sections.
InitProvenance ==
    \E sources \in SrcLists :
        /\ pipfile = pipfile_from_package_versions(<<>>, Some(Meta(sources, <<>>, None)))
        /\ workdir = None
        /\ \/ /\ pipfile_lock = None
              /\ result = Built("from_strings", <<>>)
           \/ \E default \in ScannedDefaults, develop \in ScannedDevelops :
                /\ (develop # <<>> /\ develop[1].name = "y") => Len(default[1].hashes) = 1
                /\ pipfile_lock =
                      Some(Lock(default, develop, Meta(sources, <<>>, pipfile_hash(pipfile)),
                                FALSE, Some(ThisPipfile)))
                /\ result = Built("from_strings", default \o develop)

\* The answers of the fetcher that differ where the call asks: for the
\* names locked.
DigestsFor(lk) ==
    LET asked == IF lk = None THEN {}
                 ELSE {pv.name : pv \in Range(lk[1].packages) \cup Range(lk[1].dev_packages)}
    IN  { d \in [Names -> Reports] : \A n \in Names \ asked : d[n] = <<>> }

CheckProvenance ==
    \E whitelisted_sources \in Whitelists, digests \in DigestsFor(pipfile_lock) :
        Commit("check_provenance",
               Some([whitelisted_sources |-> whitelisted_sources]),
               check_provenance(pipfile, pipfile_lock, workdir, whitelisted_sources, digests))

\* One call on each Project: the call leaves the Project as it is, so a
\* second call would meet what the first one met.
NextProvenance == JustBuilt /\ CheckProvenance

SpecProvenance == InitProvenance /\ [][NextProvenance]_vars

\* ------------------------------------------------- exclude_package, relock

\* The step is a call of exclude_package with a pinned package version.
ExcludedPinned ==
    /\ result'.op = "exclude_package"
    /\ is_locked(result'.arg[1].version)

\* The section of Pipfile pf the package version passed belongs to, and the
\* other one.
SectionOf(pf, pv) == IF pv.develop THEN pf.dev_packages ELSE pf.packages
OtherSectionOf(pf, pv) == IF pv.develop THEN pf.packages ELSE pf.dev_packages

\* The entry the section held for the name before the call: None or Some.
ExistingEntry == Get(SectionOf(pipfile, result'.arg[1]), result'.arg[1].name)

\* The version of the entry the section holds for the name after the call.
EntryVersionAfter ==
    Get(SectionOf(pipfile', result'.arg[1]), result'.arg[1].name)[1].version

\* C1 as stated: excluding "==V" where the section holds the name with a
\* constraint C other than "*" leaves the entry with the version "C,!=V",
\* the existing constraint first.
C1_ExistingFirst ==
    [][ (ExcludedPinned /\ ExistingEntry # None /\ ExistingEntry[1].version # Star)
        => EntryVersionAfter =
             ExistingEntry[1].version \o <<",">> \o negate_version(result'.arg[1].version)
      ]_vars

\* C1 amended: excluding "==V" where the section holds the name with a
\* constraint C other than "*" leaves the entry with the version "!=V,C",
\* the negated new constraint first and the existing constraint second.
C1_NegatedFirst ==
    [][ (ExcludedPinned /\ ExistingEntry # None /\ ExistingEntry[1].version # Star)
        => EntryVersionAfter =
             negate_version(result'.arg[1].version) \o <<",">> \o ExistingEntry[1].version
      ]_vars

\* "==1" was excluded where the default section held "==2": the entry reads
\* "!=1,==2".
C1_Witness ==
    /\ result.op = "exclude_package"
    /\ result.arg[1].version = Eq1
    /\ ~result.arg[1].develop
    /\ Get(pipfile.packages, "x") # None
    /\ Get(pipfile.packages, "x")[1].version = Ne1 \o <<",">> \o Eq2

\* C2: excluding "==V" where the section of the package (develop iff
\* pv.develop) holds no entry for the name, or one with the constraint "*",
\* leaves exactly one entry for the name there, with the version "!=V"; the
\* other section and the other entries of the section are untouched.
C2_NewExclusion ==
    [][ (ExcludedPinned /\ (ExistingEntry = None \/ ExistingEntry[1].version = Star))
        => LET pv == result'.arg[1]
               after == SectionOf(pipfile', pv)
               before == SectionOf(pipfile, pv)
           IN  /\ Cardinality({i \in 1..Len(after) : after[i].name = pv.name}) = 1
               /\ EntryVersionAfter = negate_version(pv.version)
               /\ OtherSectionOf(pipfile', pv) = OtherSectionOf(pipfile, pv)
               /\ \A i \in 1..Len(before) :
                     before[i].name # pv.name => after[i] = before[i]
               /\ Len(after) = Len(before) + (IF ExistingEntry = None THEN 1 ELSE 0)
      ]_vars

\* A develop package "==1" was excluded: the develop section holds "!=1" for
\* it while the default section still holds its own entry "==2" for the name.
C2_Witness ==
    /\ result.op = "exclude_package"
    /\ result.arg[1].develop
    /\ Get(pipfile.dev_packages, "x") # None
    /\ Get(pipfile.dev_packages, "x")[1].version = Ne1
    /\ Get(pipfile.packages, "x") # None
    /\ Get(pipfile.packages, "x")[1].version = Eq2

\* C3: exclude_package of a package version that is not pinned raises
\* InternalError; the Pipfile, the Pipfile.lock, the object passed and the
\* working directory are as before and the tool is not run.
C3_UnpinnedRejected ==
    [][ (result'.op = "exclude_package" /\ ~is_locked(result'.arg[1].version))
        => /\ result'.err = "InternalError"
           /\ pipfile' = pipfile
           /\ pipfile_lock' = pipfile_lock
           /\ workdir' = workdir
           /\ result'.arg_out = result'.arg
           /\ result'.tool = <<>>
      ]_vars

\* exclude_package was called with ">=1" on a Project holding entries.
C3_Witness ==
    /\ result.op = "exclude_package"
    /\ result.arg[1].version = Ge1
    /\ result.err = "InternalError"
    /\ pipfile.packages # <<>>

\* C4: a call of exclude_package with a pinned version writes the new
\* constraint into the Pipfile before it locks, and locks exactly once: the
\* Pipfile the tool ran on is the Pipfile with the exclusion.  When the tool
\* fails, UnableLock is raised, the Pipfile keeps the exclusion and the
\* Pipfile.lock is the one from before the call.
C4_WriteThenLock ==
    [][ ExcludedPinned
        => LET pv == result'.arg[1]
               neg == negate_version(pv.version)
           IN  /\ Len(result'.tool) = 1
               /\ workdir' # None
               /\ workdir'[1].pipfile_file = pipfile_to_dict(pipfile')
               /\ Get(SectionOf(pipfile', pv), pv.name) = result'.arg_out
               /\ SubSeq(EntryVersionAfter, 1, Len(neg)) = neg
               /\ pipfile' # pipfile
               /\ result'.tool[1] # 0 =>
                     /\ result'.err = "UnableLock"
                     /\ pipfile_lock' = pipfile_lock
      ]_vars

\* exclude_package of "==1" failed to lock: the Pipfile holds "!=1" and the
\* Project is still without Pipfile.lock.
C4_Witness ==
    /\ result.op = "exclude_package"
    /\ result.err = "UnableLock"
    /\ result.tool = <<1>>
    /\ Get(pipfile.packages, "x") # None
    /\ Get(pipfile.packages, "x")[1].version = Ne1
    /\ pipfile_lock = None

\* C5: pipenv_lock with the tool exiting non-zero raises UnableLock and
\* leaves the Project's Pipfile.lock (or its absence) as it was; with the
\* tool exiting 0 the Project's Pipfile.lock is the one loaded from the file
\* the tool wrote, bound to the Project's Pipfile: the Project is locked.
C5_Relock ==
    [][ result'.op = "pipenv_lock"
        => /\ Len(result'.tool) = 1
           /\ result'.tool[1] # 0 =>
                 /\ result'.err = "UnableLock"
                 /\ pipfile_lock' = pipfile_lock
           /\ result'.tool[1] = 0 =>
                 /\ result'.err = ""
                 /\ pipfile_lock' # None
                 /\ pipfile_lock'[1].pipfile = Some(ThisPipfile)
                 /\ workdir'[1].lock_file # None
                 /\ pipfile_lock' =
                       Some(lock_from_file(workdir'[1].lock_file[1], Some(ThisPipfile)))
      ]_vars

\* A relock failed on a locked Project, which kept its Pipfile.lock.
C5_Witness ==
    /\ result.op = "pipenv_lock"
    /\ result.err = "UnableLock"
    /\ pipfile_lock # None
    /\ pipfile_lock[1].packages # <<>>

\* C6: without Pipfile.lock, get_outdated_package_versions and the
\* iteration over the locked dependencies raise InternalError, ask no index
\* and change nothing; a Project built from package versions without locked
\* packages has no Pipfile.lock, and a Project without one gets one only by
\* a lock that succeeds.
C6_Unlocked ==
    /\ []((result.op = "from_package_versions" /\ result.value = <<>>)
            => pipfile_lock = None)
    /\ [][ /\ ( /\ pipfile_lock = None
                 /\ result'.op \in {"get_outdated_package_versions",
                                     "iter_dependencies_locked"} )
              => /\ result'.err = "InternalError"
                 /\ result'.queries = <<>>
                 /\ UNCHANGED <<pipfile, pipfile_lock, workdir>>
           /\ (pipfile_lock = None /\ pipfile_lock' # None)
              => /\ result'.op \in {"pipenv_lock", "exclude_package"}
                 /\ result'.tool = <<0>>
                 /\ result'.err = ""
         ]_vars

\* get_outdated_package_versions was refused on a Project without
\* Pipfile.lock whose Pipfile has entries.
C6_Witness ==
    /\ result.op = "get_outdated_package_versions"
    /\ result.err = "InternalError"
    /\ pipfile_lock = None
    /\ pipfile.packages # <<>>

\* ------------------------------------------- get_outdated_package_versions

\* The last call was get_outdated_package_versions on a locked Project.
OutdatedCalled ==
    /\ result.op = "get_outdated_package_versions"
    /\ pipfile_lock # None

\* The locked packages the call went through and the sources it probed for
\* a package without index.
Iterated == iter_dependencies_locked(pipfile_lock[1], result.arg[1].devel)
Configured == lock_meta(pipfile, pipfile_lock[1]).sources

\* The index at url was asked for the package and gave the answer.
Answered(url, name, answer) == <<url, name, answer>> \in Range(result.queries)
Asked(url, name) == \E a \in Answers : Answered(url, name, a)

\* The configured sources that gave a version for the package.
Answering(name) ==
    {j \in 1..Len(Configured) :
        \E a \in Answers \ {None} : Answered(Configured[j].url, name, a)}

\* The latest version the claim compares a package with: the one its index
\* reports or, without index, the one of the first source that answers.
Reported(pv) ==
    IF pv.index # None
    THEN (CHOOSE a \in Answers \ {None} : Answered(pv.index[1].url, pv.name, a))[1]
    ELSE LET first == CHOOSE j \in Answering(pv.name) :
                          \A k \in Answering(pv.name) : j <= k
         IN  (CHOOSE a \in Answers \ {None} :
                    Answered(Configured[first].url, pv.name, a))[1]

\* C7 as stated: on return, a locked package (of a name locked once) is in
\* the result iff its pinned version differs from the latest version its
\* index reports or, without index, the first configured source that
\* answers reports; it is then mapped to (current, latest); and no source
\* after the first one that answered was asked for it.
C7_FirstAnsweringSource ==
    (OutdatedCalled /\ result.err = "")
    => \A i \in 1..Len(Iterated) :
         (\A k \in 1..Len(Iterated) : Iterated[k].name = Iterated[i].name => k = i)
         => LET pv == Iterated[i]
                entry == Get(result.value, pv.name)
            IN  /\ entry # None <=> semantic_version(pv.version) # Reported(pv)
                /\ entry # None =>
                      /\ entry[1].current = pv
                      /\ entry[1].latest = Reported(pv)
                /\ pv.index = None =>
                      \A j \in Answering(pv.name) : \A k \in 1..Len(Configured) :
                          k > j => ~Asked(Configured[k].url, pv.name)

\* C8: the call fails with NotFound iff, for some locked package it goes
\* through, every index the package is to be looked up at answered NotFound:
\* every configured source for a package without index (so also when no
\* source is configured), its own index for a package with one.  A package
\* without index that some source answers for never fails the call, however
\* many other sources answer NotFound.
C8_NotFoundIffNoSourceAnswers ==
    OutdatedCalled
    => ( result.err = "NotFound"
         <=> \E pv \in Range(Iterated) :
               IF pv.index = None
               THEN \A j \in 1..Len(Configured) :
                        Answered(Configured[j].url, pv.name, None)
               ELSE Answered(pv.index[1].url, pv.name, None) )

\* With two sources configured, both answered NotFound for a package without
\* index and the call failed with NotFound.
C8_Witness ==
    /\ OutdatedCalled
    /\ result.err = "NotFound"
    /\ Len(Configured) = 2
    /\ \E pv \in Range(Iterated) :
          /\ pv.index = None
          /\ \A j \in 1..Len(Configured) : Answered(Configured[j].url, pv.name, None)

\* ------------------------------------------ check_provenance, the sources

\* The last call was check_provenance and it returned its findings.
ProvenanceReturned ==
    /\ result.op = "check_provenance"
    /\ result.err = ""

\* The findings with the id that name the source.
SourceFindings(id, source) ==
    {k \in 1..Len(result.value) :
        result.value[k].id = id /\ result.value[k].source = Some(source)
        /\ result.value[k].package = None}

\* C9 as stated: every source of the Pipfile with SSL verification disabled
\* yields a WARNING finding INSECURE-SOURCE, whether it is whitelisted or
\* not.
C9_InsecureAlwaysWarned ==
    ProvenanceReturned
    => \A src \in Range(pipfile.meta.sources) :
         ~src.verify_ssl
         => \E k \in SourceFindings("INSECURE-SOURCE", src) :
              result.value[k].type = "WARNING"

\* C10 as stated: with a whitelist given (a list, empty or not), every source
\* of the Pipfile whose url is not listed yields exactly one ERROR finding
\* SOURCE-NOT-WHITELISTED and a listed source none; without a whitelist
\* there is no such finding.
C10_GivenWhitelist ==
    ProvenanceReturned
    => LET whitelist == result.arg[1].whitelisted_sources
       IN  \A src \in Range(pipfile.meta.sources) :
             Cardinality(SourceFindings("SOURCE-NOT-WHITELISTED", src))
               = IF whitelist # None /\ src.url \notin whitelist[1] THEN 1 ELSE 0

\* C10 amended: with a whitelist that lists at least one url, every source of
\* the Pipfile whose url is not listed yields exactly one ERROR finding
\* SOURCE-NOT-WHITELISTED and a listed source none; without a whitelist, or
\* with an empty one, there is no such finding.
C10_NonEmptyWhitelist ==
    ProvenanceReturned
    => LET whitelist == result.arg[1].whitelisted_sources
           errors == {k \in 1..Len(result.value) :
                         result.value[k].id = "SOURCE-NOT-WHITELISTED"}
       IN  /\ \A src \in Range(pipfile.meta.sources) :
                 Cardinality(SourceFindings("SOURCE-NOT-WHITELISTED", src))
                   = IF whitelist # None /\ whitelist[1] # {}
                        /\ src.url \notin whitelist[1]
                     THEN 1 ELSE 0
           /\ \A k \in errors :
                 /\ result.value[k].type = "ERROR"
                 /\ \E src \in Range(pipfile.meta.sources) :
                       k \in SourceFindings("SOURCE-NOT-WHITELISTED", src)

\* With only "ua" whitelisted and the sources a (at ua) and b (at ub), b is
\* reported and a is not.
C10_Witness ==
    /\ ProvenanceReturned
    /\ result.arg[1].whitelisted_sources = Some({"ua"})
    /\ pipfile.meta.sources = <<SrcA, SrcB>>
    /\ Cardinality(SourceFindings("SOURCE-NOT-WHITELISTED", SrcB)) = 1
    /\ SourceFindings("SOURCE-NOT-WHITELISTED", SrcA) = {}

\* ------------------------------------------ check_provenance, the index scan

\* The locked packages in the order the scan iterates them, and the entries
\* the scan fetched digests for: the first entry of each name.
Locked == pipfile_lock[1].packages \o pipfile_lock[1].dev_packages
Visited == {i \in 1..Len(Locked) : \A j \in 1..(i - 1) : Locked[j].name # Locked[i].name}

\* The index report the fetcher answered for the package version.
ReportFor(pv) ==
    (CHOOSE k \in 1..Len(result.queries) : result.queries[k][1] = pv.name)

\* The sources of a report that list at least one artifact.
Reporting(index_report) == {k \in 1..Len(index_report) : index_report[k].items # <<>>}

\* The findings with the id that name the package version.
PackageFindings(id, pv) ==
    {k \in 1..Len(result.value) :
        result.value[k].id = id /\ result.value[k].package = Some(pv)}

\* C11 as stated: a scanned package without index gets the WARNING
\* DIFFERENT-ARTIFACTS-ON-SOURCES exactly when more than one source reports
\* artifacts for it and the sets of hashes those sources report are not all
\* equal, whatever the order of the sources in the report.
C11_DifferentArtifactsIff ==
    ProvenanceReturned
    => \A i \in Visited :
         Locked[i].index = None
         => LET index_report == result.queries[ReportFor(Locked[i])][2]
                reporting == Reporting(index_report)
            IN  (PackageFindings("DIFFERENT-ARTIFACTS-ON-SOURCES", Locked[i]) # {})
                <=> ( /\ Cardinality(reporting) > 1
                      /\ \E k, l \in reporting :
                            Range(index_report[k].items) # Range(index_report[l].items) )

\* The hashes recorded for the package version, without the pipenv prefix,
\* and the hashes its assigned index reports for it.
UsedHashes(pv) == {strip_sha256(pv.hashes[h]) : h \in 1..Len(pv.hashes)}
ConfiguredHashes(pv, index_report) ==
    UNION {Range(index_report[k].items) :
             k \in {k \in 1..Len(index_report) : index_report[k].name = pv.index[1].url}}

\* Some source other than the assigned index reports a recorded hash.
OtherSourceHas(pv, index_report) ==
    \E k \in 1..Len(index_report) :
        /\ index_report[k].name # pv.index[1].url
        /\ UsedHashes(pv) \cap Range(index_report[k].items) # {}

\* The findings with the id and the severity that name the package version.
Typed(type, id, pv) ==
    {k \in PackageFindings(id, pv) : result.value[k].type = type}

\* C12 as stated: for a scanned package with an index, when more than one
\* source reports artifacts for it: recorded hashes that are not a subset of
\* the hashes of the assigned index give exactly one ERROR
\* ARTIFACT-DIFFERENT-SOURCE; otherwise a recorded hash on another source
\* gives exactly one INFO ARTIFACT-POSSIBLE-DIFFERENT-SOURCE; never both.
C12_MoreThanOneSourceCarries ==
    ProvenanceReturned
    => \A i \in Visited :
         Locked[i].index # None
         => LET pv == Locked[i]
                index_report == result.queries[ReportFor(pv)][2]
                errors == Typed("ERROR", "ARTIFACT-DIFFERENT-SOURCE", pv)
                infos == Typed("INFO", "ARTIFACT-POSSIBLE-DIFFERENT-SOURCE", pv)
            IN  /\ ~(errors # {} /\ infos # {})
                /\ Cardinality(Reporting(index_report)) > 1
                   => IF ~(UsedHashes(pv) \subseteq ConfiguredHashes(pv, index_report))
                      THEN Cardinality(errors) = 1
                      ELSE OtherSourceHas(pv, index_report) => Cardinality(infos) = 1

\* C12 amended: for a scanned package with an index, when its assigned index
\* reports at least one artifact and the report lists more than one source
\* (with artifacts or not): recorded hashes that are not a subset of the
\* hashes of the assigned index give exactly one ERROR
\* ARTIFACT-DIFFERENT-SOURCE and no INFO; otherwise a recorded hash on another
\* source gives exactly one INFO ARTIFACT-POSSIBLE-DIFFERENT-SOURCE and no
\* ERROR; in every other case the package gets neither finding.
C12_AssignedIndexReports ==
    ProvenanceReturned
    => \A i \in Visited :
         Locked[i].index # None
         => LET pv == Locked[i]
                index_report == result.queries[ReportFor(pv)][2]
                errors == PackageFindings("ARTIFACT-DIFFERENT-SOURCE", pv)
                infos == PackageFindings("ARTIFACT-POSSIBLE-DIFFERENT-SOURCE", pv)
                compared == /\ ConfiguredHashes(pv, index_report) # {}
                            /\ Len(index_report) > 1
                differs == ~(UsedHashes(pv) \subseteq ConfiguredHashes(pv, index_report))
            IN  /\ errors = Typed("ERROR", "ARTIFACT-DIFFERENT-SOURCE", pv)
                /\ infos = Typed("INFO", "ARTIFACT-POSSIBLE-DIFFERENT-SOURCE", pv)
                /\ Cardinality(errors) = IF compared /\ differs THEN 1 ELSE 0
                /\ Cardinality(infos) =
                      IF compared /\ ~differs /\ OtherSourceHas(pv, index_report)
                      THEN 1 ELSE 0

\* One scan met both cases: a package whose recorded hash is not on its
\* assigned index, and a package whose recorded hash is on its assigned index
\* and on another source too.
C12_Witness ==
    /\ ProvenanceReturned
    /\ \E i \in Visited :
          /\ Locked[i].index # None
          /\ Cardinality(PackageFindings("ARTIFACT-DIFFERENT-SOURCE", Locked[i])) = 1
    /\ \E i \in Visited :
          /\ Locked[i].index # None
          /\ Cardinality(PackageFindings("ARTIFACT-POSSIBLE-DIFFERENT-SOURCE", Locked[i])) = 1

\* C13 as stated: a scanned package with an index gets exactly one ERROR
\* MISSING-PACKAGE whenever the report of its assigned index contains none of
\* its recorded hashes; a package without index, or whose assigned index
\* reports one of its hashes, gets none.
C13_NoneOfItsHashes ==
    ProvenanceReturned
    => \A i \in Visited :
         LET pv == Locked[i]
             index_report == result.queries[ReportFor(pv)][2]
         IN  Cardinality(Typed("ERROR", "MISSING-PACKAGE", pv))
               = IF /\ pv.index # None
                    /\ UsedHashes(pv) \cap ConfiguredHashes(pv, index_report) = {}
                 THEN 1 ELSE 0

\* C13 amended: a scanned package with an index gets exactly one ERROR
\* MISSING-PACKAGE when the report has no artifact at all for its assigned
\* index (the index is not listed, or listed with none), and no
\* MISSING-PACKAGE finding otherwise: not without index, and not when the
\* assigned index reports artifacts, whether they carry a recorded hash or not.
C13_NoEntryOnAssignedIndex ==
    ProvenanceReturned
    => \A i \in Visited :
         LET pv == Locked[i]
             index_report == result.queries[ReportFor(pv)][2]
             missing == PackageFindings("MISSING-PACKAGE", pv)
         IN  /\ missing = Typed("ERROR", "MISSING-PACKAGE", pv)
             /\ Cardinality(missing)
                  = IF pv.index # None /\ ConfiguredHashes(pv, index_report) = {}
                    THEN 1 ELSE 0

\* A package assigned to index a was scanned, the report listed another
\* source only, and the package was reported missing once.
C13_Witness ==
    /\ ProvenanceReturned
    /\ \E i \in Visited :
          LET pv == Locked[i]
              index_report == result.queries[ReportFor(pv)][2]
          IN  /\ pv.index = Some(SrcA)
              /\ index_report # <<>>
              /\ ~Has(index_report, "ua")
              /\ Cardinality(PackageFindings("MISSING-PACKAGE", pv)) = 1

\* No source of the report lists an artifact with the digest.
AbsentEverywhere(digest, index_report) ==
    \A k \in 1..Len(index_report) : digest \notin Range(index_report[k].items)

C15_EveryEntryScanned ==
    [][ (result'.op = "check_provenance" /\ pipfile_lock # None)
        => /\ result'.err = ""
           /\ pipfile' = pipfile
           /\ pipfile_lock' = pipfile_lock
           /\ Len(result'.queries) = Len(Locked)
           /\ \A i \in 1..Len(Locked) :
                 \E k \in 1..Len(result'.queries) :
                     result'.queries[k][1] = Locked[i].name ]_vars

\* ------------------------------------- check_provenance, order of findings

\* Finding k is about a source of the Pipfile, not about a locked package.
AboutSource(k) == result.value[k].package = None

\* Where the scan met the package of finding k, where Pipfile lists the
\* source of finding k, and where the package records the digest of finding k.
PackagePos(k) == CHOOSE i \in Visited : Locked[i] = result.value[k].package[1]
SourcePos(k) ==
    CHOOSE j \in 1..Len(pipfile.meta.sources) :
        pipfile.meta.sources[j] = result.value[k].source[1]
DigestPos(k) ==
    CHOOSE h \in 1..Len(result.value[k].package[1].hashes) :
        strip_sha256(result.value[k].package[1].hashes[h]) = result.value[k].digest[1]

\* The place of a check among the checks on one package.
CheckRank(id) ==
    CASE id = "DIFFERENT-ARTIFACTS-ON-SOURCES" -> 1
      [] id = "ARTIFACT-DIFFERENT-SOURCE" -> 2
      [] id = "ARTIFACT-POSSIBLE-DIFFERENT-SOURCE" -> 2
      [] id = "MISSING-PACKAGE" -> 3
      [] id = "INVALID-ARTIFACT-HASH" -> 4

\* C20 as stated: in the findings returned, those about the sources come
\* before those of the index scan.
C20_SourcePassFirst ==
    ProvenanceReturned
    => \A k, l \in 1..Len(result.value) :
         (AboutSource(k) /\ ~AboutSource(l)) => k < l

\* C20 amended: in the findings returned, those of the index scan come first
\* and those about the sources last.  The findings of the scan follow the
\* iteration of the locked packages, default before develop; those of one
\* package follow the order of the checks (different artifacts, different
\* source, missing package, invalid hash) and the invalid hashes the order
\* the package records them in.  The findings about the sources follow the
\* order of the sources in Pipfile.
C20_ScanPassFirst ==
    ProvenanceReturned
    => \A k, l \in 1..Len(result.value) :
         k < l
         => /\ AboutSource(k) => AboutSource(l)
            /\ (AboutSource(k) /\ AboutSource(l)) => SourcePos(k) < SourcePos(l)
            /\ (~AboutSource(k) /\ ~AboutSource(l))
               => /\ PackagePos(k) <= PackagePos(l)
                  /\ PackagePos(k) = PackagePos(l)
                     => /\ CheckRank(result.value[k].id) <= CheckRank(result.value[l].id)
                        /\ result.value[k].id = result.value[l].id
                           => /\ result.value[k].id = "INVALID-ARTIFACT-HASH"
                              /\ DigestPos(k) < DigestPos(l)

\* One call returned findings about two packages, two findings of different
\* checks about one of them, and findings about two sources.
C20_Witness ==
    /\ ProvenanceReturned
    /\ \E k, l \in 1..Len(result.value) :
          ~AboutSource(k) /\ ~AboutSource(l) /\ PackagePos(k) < PackagePos(l)
    /\ \E k, l \in 1..Len(result.value) :
          /\ ~AboutSource(k) /\ ~AboutSource(l) /\ PackagePos(k) = PackagePos(l)
          /\ CheckRank(result.value[k].id) < CheckRank(result.value[l].id)
    /\ \E k, l \in 1..Len(result.value) :
          AboutSource(k) /\ AboutSource(l) /\ k # l

\* ------------------------------------------- the documents, serialization

\* PackageVersion.to_pipfile_lock(): the long form, version, hashes and the
\* name of the index.
to_pipfile_lock_entry(pv) ==
    [name |-> pv.name, version |-> pv.version, hashes |-> pv.hashes,
     index |-> IF pv.index = None THEN None ELSE Some(pv.index[1].name)]

\* Packages.to_pipfile_lock()
to_pipfile_lock(packages) ==
    [i \in 1..Len(packages) |-> to_pipfile_lock_entry(packages[i])]

\* PipfileMeta.to_dict(is_lock=True): sources, requires and hash (the
\* pipfile-spec number is a fixed default and is left out).
meta_to_dict_lock(meta) ==
    [sources |-> meta.sources, requires |-> meta.requires, hash |-> meta.hash]

\* Assignment through self.meta of a PipfileLock: when the PipfileMeta object
\* is the one of the Pipfile, the Pipfile sees the change.
set_lock_meta(pf, lk, meta) ==
    IF lk.shares_meta
    THEN [pipfile |-> [pf EXCEPT !.meta = meta], pipfile_lock |-> lk]
    ELSE [pipfile |-> pf, pipfile_lock |-> [lk EXCEPT !.meta = meta]]

\* PipfileLock.to_dict as it would be if the Pipfile stored came before the
\* one passed.
lock_to_dict_stored_first(pf, lk, wd, explicit) ==
    LET used == IF lk[1].pipfile # None THEN Some(pf) ELSE explicit
    IN  IF used = None
        THEN Outcome("InternalError", pf, lk, wd, None, <<>>, <<>>, <<>>)
        ELSE LET meta1 == [lock_meta(pf, lk[1]) EXCEPT !.hash = pipfile_hash(used[1])]
                 s == sanitize_source_indexes(lk[1].packages, lk[1].dev_packages,
                                              meta1.sources)
                 meta2 == [meta1 EXCEPT !.sources = s.sources]
                 d == set_lock_meta(pf, lk[1], meta2)
             IN  Outcome(s.err, d.pipfile, Some(d.pipfile_lock), wd, None, <<>>, <<>>,
                         IF s.err # "" THEN <<>>
                         ELSE Some([meta |-> meta_to_dict_lock(meta2),
                                    default |-> to_pipfile_lock(lk[1].packages),
                                    develop |-> to_pipfile_lock(lk[1].dev_packages)]))

\* PipfileLock.to_dict(pipfile) on the Pipfile.lock lk of the Project;
\* explicit is the Pipfile passed, None or Some.  The Pipfile used is the one
\* passed or else the one stored; its hash is set on the metadata, then the
\* sources are sanitized, then the content is assembled.
lock_to_dict(pf, lk, wd, explicit) ==
    LET used == IF explicit # None THEN explicit
                ELSE IF lk[1].pipfile # None THEN Some(pf) ELSE None
    IN  IF used = None
        THEN Outcome("InternalError", pf, lk, wd, None, <<>>, <<>>, <<>>)
        ELSE LET meta1 == [lock_meta(pf, lk[1]) EXCEPT !.hash = pipfile_hash(used[1])]
                 s == sanitize_source_indexes(lk[1].packages, lk[1].dev_packages,
                                              meta1.sources)
                 meta2 == [meta1 EXCEPT !.sources = s.sources]
                 d == set_lock_meta(pf, lk[1], meta2)
             IN  Outcome(s.err, d.pipfile, Some(d.pipfile_lock), wd, None, <<>>, <<>>,
                         IF s.err # "" THEN <<>>
                         ELSE Some([meta |-> meta_to_dict_lock(meta2),
                                    default |-> to_pipfile_lock(lk[1].packages),
                                    develop |-> to_pipfile_lock(lk[1].dev_packages)]))

\* _PipfileBase.sanitize_source_indexes() called on the Pipfile
\* (document = "pipfile") or on the Pipfile.lock (document = "pipfile_lock").
sanitize_document(pf, lk, wd, document) ==
    IF document = "pipfile"
    THEN LET s == sanitize_source_indexes(pf.packages, pf.dev_packages, pf.meta.sources)
         IN  Outcome(s.err, [pf EXCEPT !.meta.sources = s.sources], lk, wd,
                     None, <<>>, <<>>, <<>>)
    ELSE LET meta == lock_meta(pf, lk[1])
             s == sanitize_source_indexes(lk[1].packages, lk[1].dev_packages,
                                          meta.sources)
             d == set_lock_meta(pf, lk[1], [meta EXCEPT !.sources = s.sources])
         IN  Outcome(s.err, d.pipfile, Some(d.pipfile_lock), wd, None, <<>>, <<>>, <<>>)

\* Project.add_source(url, verify_ssl, name): PipfileMeta.add_source on the
\* Pipfile and, when there is one, on the Pipfile.lock; the Source is
\* returned.
add_source(pf, lk, wd, source) ==
    LET pf1 == [pf EXCEPT !.meta.sources = Put(@, source)]
        d == IF lk = None THEN [pipfile |-> pf1, pipfile_lock |-> None]
             ELSE LET meta == lock_meta(pf1, lk[1])
                      e == set_lock_meta(pf1, lk[1],
                                         [meta EXCEPT !.sources = Put(@, source)])
                  IN  [pipfile |-> e.pipfile, pipfile_lock |-> Some(e.pipfile_lock)]
    IN  Outcome("", d.pipfile, d.pipfile_lock, wd, None, <<>>, <<>>, Some(source))

\* Project.add_package(package_name, package_version, source=, develop=) for
\* a name the section does not hold yet, called without source or with a
\* source that is not registered (with a registered one the PackageVersion is
\* built from the name of the source, which is for PackageVersion to resolve).
add_package(pf, lk, wd, name, version, source, develop) ==
    IF source # None /\ ~Has(pf.meta.sources, source[1].name)
    THEN Outcome("InternalError", pf, lk, wd, None, <<>>, <<>>, <<>>)
    ELSE LET pv == PV(name, version, develop, source, <<>>)
         IN  Outcome("",
                     IF develop THEN [pf EXCEPT !.dev_packages = Put(@, pv)]
                     ELSE [pf EXCEPT !.packages = Put(@, pv)],
                     lk, wd, None, <<>>, <<>>, <<>>)

\* Project.set_python_version(python_version): None pops the entry (KeyError
\* when there is none), a version is stored under "python_version".
set_python_version(pf, lk, wd, python_version) ==
    IF python_version = None
    THEN IF ~Has(pf.meta.requires, "python_version")
         THEN Outcome("KeyError", pf, lk, wd, None, <<>>, <<>>, <<>>)
         ELSE Outcome("", [pf EXCEPT !.meta.requires =
                              SelectSeq(@, LAMBDA r : r.name # "python_version")],
                      lk, wd, None, <<>>, <<>>, <<>>)
    ELSE Outcome("", [pf EXCEPT !.meta.requires =
                         Put(@, [name |-> "python_version", value |-> python_version[1]])],
                 lk, wd, None, <<>>, <<>>, <<>>)

\* ------------------------------------- the documents and their mutations

\* Sources that clash with a and b: the name of a with another url, the name
\* and url of b with SSL verification on.
SrcA2 == [name |-> "a", url |-> "ua2", verify_ssl |-> TRUE]
SrcB2 == [name |-> "b", url |-> "ub", verify_ssl |-> TRUE]

\* The locked packages PipfileLock.from_package_versions is given.
DocLockedLists ==
    { <<PV("x", Eq1, FALSE, None, <<H1>>)>>,
      <<PV("x", Eq1, FALSE, Some(SrcB), <<H1>>)>>,
      <<PV("x", Eq1, FALSE, Some(SrcA2), <<H1>>), PV("y", Eq1, TRUE, Some(SrcB), <<H2>>)>> }

\* The Pipfile.lock objects a Project can be constructed with for Pipfile pf:
\* none; one parsed from a file, without or with the Pipfile; one built by
\* PipfileLock.from_package_versions with the PipfileMeta of the Pipfile
\* (meta=pipfile.meta) or with a PipfileMeta of its own.
DocLocks(pf) ==
    {None}
    \cup { Some(lock_from_file(tool_output(pf, [default |-> <<LockedX1>>, develop |-> <<>>]),
                               ref)) : ref \in {None, Some(ThisPipfile)} }
    \cup { Some(Lock(SelectSeq(locked, LAMBDA pv : ~pv.develop),
                     SelectSeq(locked, LAMBDA pv : pv.develop),
                     IF shared THEN pf.meta ELSE Meta(<<SrcA>>, <<>>, None),
                     shared, Some(ThisPipfile))) :
             locked \in DocLockedLists, shared \in BOOLEAN }

\* A Project constructed from documents built apart (no sanitizing), or
\* built by Project.from_package_versions (both documents sanitized).
InitDocuments(directs, source_lists) ==
    \E direct \in directs, sources \in source_lists :
        LET meta == Some(Meta(sources, <<>>, None))
            pf == pipfile_from_package_versions(direct, meta)
        IN  /\ workdir = None
            /\ \/ \E lk \in DocLocks(pf) :
                    /\ pipfile = pf
                    /\ pipfile_lock = lk
                    /\ result = Built("constructor", <<>>)
               \/ \E locked \in DocLockedLists :
                    LET fpv == from_package_versions(direct, locked, meta)
                    IN  /\ fpv.err = ""
                        /\ pipfile = fpv.pipfile
                        /\ pipfile_lock = fpv.pipfile_lock
                        /\ result = Built("from_package_versions", locked)

\* A Pipfile object other than the one of the Project.
OtherPipfile ==
    pipfile_from_package_versions(<<PV("y", Eq2, FALSE, None, <<>>)>>,
                                  Some(Meta(<<SrcB>>, <<>>, None)))

\* The Pipfile a caller passes to PipfileLock.to_dict: none, the Pipfile of
\* the Project, another one.
PassedPipfile(passed, pf) ==
    IF passed = None THEN None
    ELSE IF passed[1] = ThisPipfile THEN Some(pf) ELSE Some(OtherPipfile)

LockToDict ==
    /\ pipfile_lock # None
    /\ \E passed \in {None, Some(ThisPipfile), Some("other")} :
          Commit("to_dict", Some([pipfile |-> passed]),
                 lock_to_dict(pipfile, pipfile_lock, workdir,
                              PassedPipfile(passed, pipfile)))

SanitizeSourceIndexes ==
    \E document \in {"pipfile", "pipfile_lock"} :
        /\ document = "pipfile_lock" => pipfile_lock # None
        /\ Commit("sanitize_source_indexes", Some([document |-> document]),
                  sanitize_document(pipfile, pipfile_lock, workdir, document))

AddSource ==
    \E source \in {SrcB, SrcA2} :
        Commit("add_source", Some(source),
               add_source(pipfile, pipfile_lock, workdir, source))

AddPackage ==
    \E source \in {None, Some(SrcB)} :
        /\ ~Has(pipfile.packages, "y")
        /\ source # None => ~Has(pipfile.meta.sources, source[1].name)
        /\ Commit("add_package", Some(PV("y", Star, FALSE, source, <<>>)),
                  add_package(pipfile, pipfile_lock, workdir, "y", Star, source, FALSE))

SetPythonVersion ==
    \E python_version \in {None, Some("3.8")} :
        Commit("set_python_version", Some([python_version |-> python_version]),
               set_python_version(pipfile, pipfile_lock, workdir, python_version))

\* exclude_package as the first call made on the Project, which bounds the
\* relocks of a behaviour to one.
ExcludeFirst ==
    /\ JustBuilt
    /\ \E exit_code \in {0, 1} :
          LET pv == PV("x", Eq1, FALSE, None, <<>>)
          IN  Commit("exclude_package", Some(pv),
                     exclude_package(pipfile, pipfile_lock, workdir, pv, exit_code,
                                     [default |-> <<LockedX1>>, develop |-> <<>>]))

\* Serialization of Pipfile.lock after mutations of the Pipfile.
LockDictDirects == { <<>>, <<PV("x", Eq2, FALSE, Some(SrcA), <<>>)>> }

InitLockDict == InitDocuments(LockDictDirects, { <<SrcA>> })

NextLockDict ==
    \/ LockToDict
    \/ AddSource
    \/ AddPackage
    \/ SetPythonVersion
    \/ ExcludeFirst

SpecLockDict == InitLockDict /\ [][NextLockDict]_vars

\* Sanitizing of the sources.  The direct dependencies
\* Pipfile.from_package_versions is given refer to indexes that are
\* registered, missing, or clashing with a registered source.
SanitizeDirects ==
    { <<>>,
      <<PV("x", Eq2, FALSE, Some(SrcA), <<>>)>>,
      <<PV("x", Star, FALSE, Some(SrcB), <<>>)>>,
      <<PV("x", Eq1, FALSE, Some(SrcA2), <<>>)>>,
      <<PV("y", Ge1, TRUE, Some(SrcB2), <<>>)>>,
      <<PV("x", Star, FALSE, Some(SrcB), <<>>), PV("y", Ge1, TRUE, Some(SrcB2), <<>>)>> }

InitSanitize == InitDocuments(SanitizeDirects, { <<SrcA>>, <<SrcA, SrcB>> })

NextSanitize ==
    \/ SanitizeSourceIndexes
    \/ AddSource

SpecSanitize == InitSanitize /\ [][NextSanitize]_vars

\* ------------------------------------------------ PipfileLock.to_dict

\* C16: PipfileLock.to_dict called without a Pipfile on a Pipfile.lock that
\* stores none raises InternalError and leaves the metadata of the
\* Pipfile.lock (hash and sources) and both documents as they were; when a
\* Pipfile is passed and the call returns, the hash embedded is the one of
\* the Pipfile passed, whatever Pipfile is stored.
C16_ToDictNeedsPipfile ==
    [][ result'.op = "to_dict"
        => LET passed == result'.arg[1].pipfile
               stored == pipfile_lock[1].pipfile
           IN  /\ (passed = None /\ stored = None)
                  => /\ result'.err = "InternalError"
                     /\ lock_meta(pipfile', pipfile_lock'[1]).hash
                          = lock_meta(pipfile, pipfile_lock[1]).hash
                     /\ lock_meta(pipfile', pipfile_lock'[1]).sources
                          = lock_meta(pipfile, pipfile_lock[1]).sources
                     /\ pipfile' = pipfile
                     /\ pipfile_lock' = pipfile_lock
               /\ (passed # None /\ result'.err = "")
                  => result'.value[1].meta.hash
                       = Some(pipfile_data(PassedPipfile(passed, pipfile)[1])) ]_vars

\* to_dict was called without a Pipfile on a Pipfile.lock parsed without one,
\* after a mutation of the Pipfile, and raised InternalError.
C16_Witness ==
    /\ result.op = "to_dict"
    /\ result.err = "InternalError"
    /\ result.arg[1].pipfile = None
    /\ pipfile_lock[1].pipfile = None
    /\ pipfile.meta.requires # <<>>

\* C17 as stated: when PipfileLock.to_dict returns, having used the Pipfile
\* of the Project, the hash it embeds as _meta.hash is the hash of that
\* Pipfile as it stands at the return, after whatever mutations came before
\* the call and whatever the call itself did to the sources.
C17_HashOfPipfileAtReturn ==
    (/\ result.op = "to_dict"
     /\ result.err = ""
     /\ result.arg[1].pipfile # Some("other"))
    => result.value[1].meta.hash = Some(pipfile_data(pipfile))

\* ------------------------------------------------ sanitize_source_indexes

\* The packages of the document a call of sanitize_source_indexes was made
\* on, and the sources registered in that document, in Project state
\* pf / lk.
SanitizedPackages(document, pf, lk) ==
    IF document = "pipfile" THEN pf.packages \o pf.dev_packages
    ELSE lk[1].packages \o lk[1].dev_packages
Registered(document, pf, lk) ==
    IF document = "pipfile" THEN pf.meta.sources ELSE lock_meta(pf, lk[1]).sources

\* The Source objects the package versions refer to.
ReferencedSources(pvs) == {pv.index[1] : pv \in {p \in Range(pvs) : p.index # None}}

\* C19: sanitize_source_indexes raises InternalError or returns.  It raises
\* whenever a package refers to a Source with the name of a registered
\* source and another url or another verify_ssl.  When it returns, every
\* Source a package of the document refers to is registered under its name.
\* Either way the sources registered before are still there, unchanged and in
\* place, and what was added are sources the packages refer to.  A second
\* run right after one that returned changes nothing.
C19_SanitizeInsertsOrRaises ==
    [][ result'.op = "sanitize_source_indexes"
        => LET document == result'.arg[1].document
               referenced == ReferencedSources(SanitizedPackages(document, pipfile, pipfile_lock))
               before == Registered(document, pipfile, pipfile_lock)
               after == Registered(document, pipfile', pipfile_lock')
               clash == \E src \in referenced : \E k \in 1..Len(before) :
                           /\ before[k].name = src.name
                           /\ \/ before[k].url # src.url
                              \/ before[k].verify_ssl # src.verify_ssl
           IN  /\ result'.err \in {"", "InternalError"}
               /\ clash => result'.err = "InternalError"
               /\ result'.err = ""
                  => \A src \in referenced :
                        /\ Cardinality({k \in 1..Len(after) : after[k].name = src.name}) = 1
                        /\ \E k \in 1..Len(after) : after[k] = src
               /\ Len(after) >= Len(before)
               /\ \A k \in 1..Len(before) : after[k] = before[k]
               /\ \A k \in (Len(before) + 1)..Len(after) : after[k] \in referenced
               /\ SanitizedPackages(document, pipfile', pipfile_lock')
                    = SanitizedPackages(document, pipfile, pipfile_lock)
               /\ (result.op = "sanitize_source_indexes" /\ result.err = ""
                   /\ result.arg = result'.arg)
                  => /\ result'.err = ""
                     /\ pipfile' = pipfile
                     /\ pipfile_lock' = pipfile_lock ]_vars

\* Sanitizing the Pipfile.lock inserted source b into its own metadata (the
\* Pipfile does not list b), and sanitizing the Pipfile then raised
\* InternalError: a package refers to a source named a with another url than
\* the registered a has.
C19_Witness ==
    /\ result.op = "sanitize_source_indexes"
    /\ result.arg[1].document = "pipfile"
    /\ result.err = "InternalError"
    /\ pipfile.meta.sources = <<SrcA>>
    /\ SrcA2 \in ReferencedSources(pipfile.packages)
    /\ pipfile_lock # None
    /\ ~pipfile_lock[1].shares_meta
    /\ SrcB \in ReferencedSources(pipfile_lock[1].packages)
    /\ pipfile_lock[1].meta.sources = <<SrcA, SrcB>>

\* ------------------------------------------------------------ parsing

\* A text is modelled by what each reader makes of it: the tree toml.loads
\* returns, the tree json.loads returns, the lines a requirements reader
\* would find (name and constraint), each None when that reader fails.
Text(toml, json, requirements) ==
    [toml |-> toml, json |-> json, requirements |-> requirements]

\* Packages.from_pipfile(entries, develop, meta): the index named by an entry
\* is the Source of that name in meta.
from_pipfile(entries, develop, meta) ==
    [i \in 1..Len(entries) |->
        PV(entries[i].name, entries[i].version, develop,
           IF entries[i].index = None THEN None
           ELSE Get(meta.sources, entries[i].index[1]),
           <<>>)]

\* Pipfile.from_dict(dict_), on the tree of a Pipfile.
pipfile_from_dict(tree) ==
    LET meta == Meta(tree.meta.source, tree.meta.requires, None)
    IN  [packages |-> from_pipfile(tree.packages, FALSE, meta),
         dev_packages |-> from_pipfile(tree.dev_packages, TRUE, meta),
         meta |-> meta]

\* Pipfile.from_string(pipfile_content): TOML, else JSON, else
\* PipfileParseError.  [err, value]
pipfile_from_string(text) ==
    IF text.toml # None
    THEN [err |-> "", value |-> Some(pipfile_from_dict(text.toml[1]))]
    ELSE IF text.json # None
    THEN [err |-> "", value |-> Some(pipfile_from_dict(text.json[1]))]
    ELSE [err |-> "PipfileParseError", value |-> None]

\* PipfileLock.from_string(pipfile_content, pipfile): JSON, else
\* PipfileParseError.  [err, value]
lock_from_string(text, pf_ref) ==
    IF text.json # None
    THEN [err |-> "", value |-> Some(lock_from_file(text.json[1], pf_ref))]
    ELSE [err |-> "PipfileParseError", value |-> None]

\* _PipfileBase.from_requirements(requirements_content), which neither
\* Pipfile nor PipfileLock overrides: it raises NotImplementedError, and
\* called with the two arguments PipfileLock.parse was given it is a
\* TypeError.
from_requirements(cls, text) ==
    [err |-> IF cls = "Pipfile" THEN "NotImplementedError" ELSE "TypeError",
     value |-> None]

\* _PipfileBase.parse: from_string, and from_requirements when that raised
\* PipfileParseError.  Pipfile.parse(text), PipfileLock.parse(text, pipfile).
parse(cls, text) ==
    LET structured == IF cls = "Pipfile" THEN pipfile_from_string(text)
                      ELSE lock_from_string(text, Some(ThisPipfile))
    IN  IF structured.err = "PipfileParseError"
        THEN from_requirements(cls, text)
        ELSE structured

\* The texts handed to parse: Pipfile documents in TOML and in JSON,
\* Pipfile.lock documents in JSON, requirements lists of one or two lines,
\* and text no reader makes sense of.
RequirementLines == { [name |-> n, version |-> v] : n \in Names, v \in {Eq1, Ge1} }
RequirementTexts ==
    { Text(None, None, Some(<<l>>)) : l \in RequirementLines }
    \cup { Text(None, None, Some(<<l, m>>)) : l \in RequirementLines, m \in RequirementLines }
Garbage == Text(None, None, None)
PipfileTrees ==
    { pipfile_to_dict(pipfile_from_package_versions(direct, Some(Meta(<<SrcA, SrcB>>, <<>>, None)))) :
        direct \in DirectLists }
LockTrees ==
    { tool_output(pipfile_from_package_versions(<<>>, Some(Meta(<<SrcA, SrcB>>, <<>>, None))), r) :
        r \in Resolutions }
TextsFor(cls) ==
    RequirementTexts \cup {Garbage}
    \cup { Text(Some(tree), None, None) : tree \in PipfileTrees }
    \cup IF cls = "Pipfile"
         THEN { Text(None, Some(tree), None) : tree \in PipfileTrees }
         ELSE { Text(None, Some(tree), None) : tree \in LockTrees }

\* Pipfile.parse / PipfileLock.parse are class methods: the Project at hand
\* is left alone.
Parse ==
    \E cls \in {"Pipfile", "PipfileLock"} : \E text \in TextsFor(cls) :
        LET r == parse(cls, text)
        IN  Commit("parse", Some([cls |-> cls, text |-> text]),
                   Outcome(r.err, pipfile, pipfile_lock, workdir, None, <<>>, <<>>, r.value))

InitParse ==
    \E direct \in DirectLists :
        /\ pipfile = pipfile_from_package_versions(direct, Some(Meta(<<SrcA, SrcB>>, <<>>, None)))
        /\ pipfile_lock = None
        /\ workdir = None
        /\ result = Built("constructor", <<>>)

NextParse == Parse

SpecParse == InitParse /\ [][NextParse]_vars

\* The package versions of both sections of a document, as name and
\* constraint.
ParsedPackages(doc) ==
    [i \in 1..Len(doc.packages \o doc.dev_packages) |->
        [name |-> (doc.packages \o doc.dev_packages)[i].name,
         version |-> (doc.packages \o doc.dev_packages)[i].version]]

\* C18 as stated: parse returns what the structured parse makes of the text
\* when that succeeds; otherwise, when the text reads as a requirements
\* list, it returns a document with one package version per line, of that
\* name and constraint; only when both fail it raises, and then
\* PipfileParseError.
C18_RequirementsFallback ==
    result.op = "parse"
    => LET text == result.arg[1].text
           structured == IF result.arg[1].cls = "Pipfile"
                         THEN text.toml # None \/ text.json # None
                         ELSE text.json # None
       IN  IF structured THEN result.err = "" /\ result.value # None
           ELSE IF text.requirements # None
           THEN /\ result.err = ""
                /\ result.value # None
                /\ ParsedPackages(result.value[1]) = text.requirements[1]
           ELSE result.err = "PipfileParseError"

\* ------------------------------------- check_provenance without Pipfile.lock

\* C21 as stated: check_provenance on a Project that has no Pipfile.lock
\* raises InternalError, as iter_dependencies_locked does, returns no
\* findings and asks no index.
C21_UnlockedRaisesInternalError ==
    (result.op = "check_provenance" /\ pipfile_lock = None)
    => /\ result.err = "InternalError"
       /\ result.value = <<>>
       /\ result.queries = <<>>

====
